---- MODULE Spec2Model ----
(***************************************************************************)
(* A model of the xpath_reader crate (src/src/reader.rs, src/src/errors.rs) *)
(*                                                                         *)
(* The crate is a typed-deserialisation layer over a parsed XML document.  *)
(* A reader binds a root node and an evaluation context; `relative`,       *)
(* `read`, `read_option` and `read_vec` are derived from `evaluate`, and   *)
(* the FromXml / OptionFromXml conversions turn a reader's root into a     *)
(* typed value.                                                            *)
(*                                                                         *)
(* The document parser (sxd_document) and the query engine (sxd_xpath)     *)
(* are libraries the crate calls.  They are modelled by their outcomes on  *)
(* a bounded family of documents and a fixed set of queries; the order in  *)
(* which the engine holds a node-set is a nondeterministic input of every  *)
(* call.  Text is a sequence of one-character strings, so that parsing is  *)
(* computed character by character as the standard library does.           *)
(***************************************************************************)
EXTENDS Integers, Sequences, FiniteSets, TLC

VARIABLES xml, reader, call, res

vars == <<xml, reader, call, res>>

\* ------------------------------------------------------------------ bounds

\* Largest number of elements of a document.
MaxNodes == 2

\* Largest number of errors the document parser reports for one input.
MaxErrs == 2

\* --------------------------------------------------- results and errors

Ok(v) == [tag |-> "Ok", val |-> v]

\* An XpathError: its kind and the data the kind carries (strings).
Err(kind, info) == [tag |-> "Err", kind |-> kind, info |-> info]

\* The call did not return: the thread panicked.
Panic == [tag |-> "Panic"]

NoResult == [tag |-> "NoResult"]

IsOk(r) == r.tag = "Ok"

IsErr(r) == r.tag = "Err"

NodeNotFound(xpath) == Err("NodeNotFound", <<xpath>>)

FromXmlErrorKind(err) == Err("FromXmlError", err)

\* error_chain's Msg kind, built from a String or &str.
Msg(text) == Err("Msg", text)

\* The error kinds of the crate.
XpathErrorKinds ==
    {"Msg", "XmlParseError", "XpathError", "XpathExecuteError",
     "XpathParseError", "NodeNotFound", "FromXmlError", "MissingValue"}

\* ------------------------------------------------------------- documents

\* The text an element carries directly (before its child elements).
Texts ==
    { <<>>,
      <<"t", "r", "u", "e">>,
      <<"f", "a", "l", "s", "e">>,
      <<"4", "2">>,
      <<"-", "1">>,
      <<"+", "7">>,
      <<"1", "2", "8">>,
      <<"9", "9", "9", "9", "9">>,
      <<"x">> }

\* Node 0 is the document root; elements are numbered 1..n in document
\* order (preorder), so the parent of element i is element i-1 or one of
\* its ancestors.
RECURSIVE AncestorsOrSelf(_, _)
AncestorsOrSelf(parent, i) ==
    IF i = 0 THEN {0} ELSE {i} \cup AncestorsOrSelf(parent, parent[i])

WellFormedTree(t) ==
    /\ t.parent[1] = 0
    /\ \A i \in 2..t.n : t.parent[i] \in AncestorsOrSelf(t.parent, i - 1) \ {0}

Trees ==
    UNION { { t \in [n : {k}, parent : [1..k -> 0..(k-1)], text : [1..k -> Texts]] :
                WellFormedTree(t) } : k \in 1..MaxNodes }

\* The errors of sxd_document::parser the model distinguishes.
ParserErrors == {"Expected", "Unclosed"}

ErrLists == UNION { [1..k -> ParserErrors] : k \in 0..MaxErrs }

\* An input text: well-formed (given by the tree it parses to) or rejected
\* by the parser with an offset and a list of errors.
Inputs ==
    [wf : {TRUE}, tree : Trees]
    \cup [wf : {FALSE}, offset : {0}, errs : ErrLists]

\* The evaluation contexts the caller holds.
Contexts == {"ctx1", "ctx2"}

Nodes(d) == 0..d.n

Children(d, i) == { j \in 1..d.n : d.parent[j] = i }

RECURSIVE Descendants(_, _)
Descendants(d, i) ==
    Children(d, i) \cup UNION { Descendants(d, j) : j \in Children(d, i) }

\* A set of nodes as the sequence of its members in document order.
RECURSIVE InDocumentOrder(_)
InDocumentOrder(S) ==
    IF S = {} THEN <<>>
    ELSE LET m == CHOOSE x \in S : \A y \in S : x <= y
         IN  <<m>> \o InDocumentOrder(S \ {m})

RECURSIVE ConcatAll(_, _, _)
RECURSIVE StringValue(_, _)
\* The XPath string-value of a node: its text and that of its descendants,
\* in document order.
StringValue(d, i) ==
    (IF i = 0 THEN <<>> ELSE d.text[i])
    \o ConcatAll(d, InDocumentOrder(Children(d, i)), 1)

ConcatAll(d, seq, k) ==
    IF k > Len(seq) THEN <<>>
    ELSE StringValue(d, seq[k]) \o ConcatAll(d, seq, k + 1)

\* ---------------------------------------------------------- query engine

\* The queries the model evaluates, and what sxd_xpath makes of each.
Queries == {".", "*", ".//*", "string(.)", "count(*)", "true()", "", "///", "$x"}

\* Factory::build: a syntax error, no expression at all, or an XPath.
FactoryBuild(xpath_expr) ==
    CASE xpath_expr = "///" -> Err("XpathParseError", <<xpath_expr>>)
      [] xpath_expr = ""    -> Ok("None")
      [] OTHER              -> Ok(xpath_expr)

build_xpath(xpath_expr) ==
    LET built == FactoryBuild(xpath_expr)
    IN  IF ~IsOk(built) THEN built
        ELSE IF built.val = "None" THEN Msg(<<"Xpath instance was None!">>)
        ELSE built

\* The orders in which the engine may hold the members of a node-set.
Orders == {"fwd", "rev"}

RECURSIVE Reverse(_)
Reverse(seq) ==
    IF seq = <<>> THEN <<>> ELSE Reverse(Tail(seq)) \o <<Head(seq)>>

Hold(S, h) ==
    IF h = "fwd" THEN InDocumentOrder(S) ELSE Reverse(InDocumentOrder(S))

Nodeset(S, h) == [nodeset |-> Hold(S, h)]

Digit == [i \in 0..9 |-> <<"0","1","2","3","4","5","6","7","8","9">>[i + 1]]

\* XPath::evaluate on (context, node): the Value of the query, or the
\* engine's execution error.
XPathEvaluate(d, node, xpath, h) ==
    CASE xpath = "."         -> Ok(Nodeset({node}, h))
      [] xpath = "*"         -> Ok(Nodeset(Children(d, node), h))
      [] xpath = ".//*"      -> Ok(Nodeset(Descendants(d, node), h))
      [] xpath = "string(.)" -> Ok([text |-> StringValue(d, node)])
      [] xpath = "count(*)"  -> Ok([number |-> Cardinality(Children(d, node))])
      [] xpath = "true()"    -> Ok([boolean |-> TRUE])
      [] OTHER               -> Err("XpathExecuteError", <<xpath>>)

\* XpathReader::evaluate, as XpathStrReader and XpathNodeReader implement it.
Evaluate(d, r, xpath_expr, h) ==
    LET xpath == build_xpath(xpath_expr)
    IN  IF ~IsOk(xpath) THEN xpath
        ELSE XPathEvaluate(d, r.node, xpath.val, h)

IsNodeset(v) == DOMAIN v = {"nodeset"}

\* Nodeset::document_order
document_order(nodeset) == InDocumentOrder({ nodeset[k] : k \in 1..Len(nodeset) })

\* Nodeset::document_order_first: None for the empty set.
document_order_first(nodeset) ==
    LET ordered == document_order(nodeset)
    IN  IF ordered = <<>> THEN [none |-> TRUE] ELSE [some |-> ordered[1]]

\* Value::string
ValueString(d, v) ==
    CASE DOMAIN v = {"nodeset"} ->
            LET first == document_order_first(v.nodeset)
            IN  IF DOMAIN first = {"none"} THEN <<>> ELSE StringValue(d, first.some)
      [] DOMAIN v = {"text"}    -> v.text
      [] DOMAIN v = {"number"}  -> <<Digit[v.number]>>
      [] DOMAIN v = {"boolean"} ->
            IF v.boolean THEN <<"t", "r", "u", "e">> ELSE <<"f", "a", "l", "s", "e">>

\* Value::number: the engine's numeric coercion of the value; the number
\* itself is left uninterpreted (it is NaN for text that is no number).
ValueNumber(d, v) == [number_of |-> ValueString(d, v)]

\* ------------------------------------------- scalar parsing (std FromStr)

\* The integer types of from_parse_str! whose range fits 32-bit arithmetic;
\* u32, u64 and i64 expand the same macro.
IntTypes == {"u8", "i8", "u16", "i32"}

ParseTypes == IntTypes \cup {"bool"}

IsSigned(T) == T \in {"i8", "i32"}

IntMax(T) ==
    CASE T = "u8" -> 255 [] T = "i8" -> 127 [] T = "u16" -> 65535
      [] T = "i32" -> 2147483647

IntMin(T) ==
    CASE T = "u8" -> 0 [] T = "i8" -> -128 [] T = "u16" -> 0
      [] T = "i32" -> -2147483647 - 1

ParseError(type, kind) == [tag |-> "Err", kind |-> type, info |-> <<kind>>]

\* char::to_digit(10): -1 stands for None.
ToDigit(c) ==
    IF \E i \in 0..9 : Digit[i] = c THEN CHOOSE i \in 0..9 : Digit[i] = c ELSE -1

RECURSIVE Accumulate(_, _, _, _, _)
\* The digit loop of core::num::from_str_radix, radix 10, with its checked
\* multiplication and addition (subtraction for a negative number).
Accumulate(T, digits, k, result, is_positive) ==
    IF k > Len(digits) THEN Ok([int |-> result])
    ELSE LET x == ToDigit(digits[k])
         IN  IF x = -1 THEN ParseError("ParseIntError", "InvalidDigit")
             ELSE IF is_positive
             THEN IF result > IntMax(T) \div 10
                  THEN ParseError("ParseIntError", "PosOverflow")
                  ELSE IF result * 10 > IntMax(T) - x
                  THEN ParseError("ParseIntError", "PosOverflow")
                  ELSE Accumulate(T, digits, k + 1, result * 10 + x, is_positive)
             ELSE IF result < (IntMin(T) + 9) \div 10
                  THEN ParseError("ParseIntError", "NegOverflow")
                  ELSE IF result * 10 < IntMin(T) + x
                  THEN ParseError("ParseIntError", "NegOverflow")
                  ELSE Accumulate(T, digits, k + 1, result * 10 - x, is_positive)

\* <int as FromStr>::from_str
ParseInt(T, src) ==
    IF src = <<>> THEN ParseError("ParseIntError", "Empty")
    ELSE IF Len(src) = 1 /\ src[1] \in {"+", "-"}
    THEN ParseError("ParseIntError", "InvalidDigit")
    ELSE IF src[1] = "+" THEN Accumulate(T, Tail(src), 1, 0, TRUE)
    ELSE IF src[1] = "-" /\ IsSigned(T) THEN Accumulate(T, Tail(src), 1, 0, FALSE)
    ELSE Accumulate(T, src, 1, 0, TRUE)

\* <bool as FromStr>::from_str
ParseBool(src) ==
    CASE src = <<"t", "r", "u", "e">>      -> Ok([bool |-> TRUE])
      [] src = <<"f", "a", "l", "s", "e">> -> Ok([bool |-> FALSE])
      [] OTHER -> ParseError("ParseBoolError", "ParseBoolError")

\* Parsing that takes the empty string for the type's default value.
StrParse_EmptyIsDefault(T, src) ==
    IF src = <<>>
    THEN (IF T = "bool" THEN Ok([bool |-> FALSE]) ELSE Ok([int |-> 0]))
    ELSE IF T = "bool" THEN ParseBool(src) ELSE ParseInt(T, src)

\* str::parse::<T>
StrParse(T, src) == IF T = "bool" THEN ParseBool(src) ELSE ParseInt(T, src)

\* From<ParseBoolError | ParseIntError | ParseFloatError> for XpathError:
\* the parse error boxed in the FromXmlError kind.
FromParseError(err) == FromXmlErrorKind(<<err.kind>> \o err.info)

\* ------------------------------------------------------------ the readers

NoReader == [node |-> -1, context |-> "none"]

\* XpathNodeReader::new
XpathNodeReaderNew(node, context) == Ok([node |-> node, context |-> context])

\* From<(usize, Vec<sxd_document::parser::Error>)> for XpathError: the
\* first error of the list; indexing an empty list panics.
FromParserErrors(err) ==
    IF Len(err.errs) = 0 THEN Panic ELSE Err("XmlParseError", <<err.errs[1]>>)

\* XpathStrReader::new: the reader of the document root, or the parser's
\* failure converted.
XpathStrReaderNew(input, context) ==
    IF input.wf THEN Ok([node |-> 0, context |-> context])
    ELSE FromParserErrors(input)

\* relative taking the first node the engine holds (nodeset.iter().next())
\* in place of the first in document order.
Relative_FirstHeld(d, r, xpath_expr, h) ==
    LET value == Evaluate(d, r, xpath_expr, h)
    IN  IF ~IsOk(value) THEN value
        ELSE IF IsNodeset(value.val)
        THEN IF value.val.nodeset = <<>> THEN NodeNotFound(xpath_expr)
             ELSE XpathNodeReaderNew(value.val.nodeset[1], r.context)
        ELSE Msg(<<"XPath didn't specify a nodeset: ", xpath_expr>>)

\* XpathReader::relative
Relative(d, r, xpath_expr, h) ==
    LET value == Evaluate(d, r, xpath_expr, h)
    IN  IF ~IsOk(value) THEN value
        ELSE IF IsNodeset(value.val)
        THEN LET first == document_order_first(value.val.nodeset)
             IN  IF DOMAIN first = {"none"} THEN NodeNotFound(xpath_expr)
                 ELSE XpathNodeReaderNew(first.some, r.context)
        ELSE Msg(<<"XPath didn't specify a nodeset: ", xpath_expr>>)

\* ------------------------------------------------------- the conversions

None == [none |-> TRUE]

Some(v) == [some |-> v]

\* impl FromXml for String
FromXmlString(d, r, h) ==
    LET value == Evaluate(d, r, ".", h)
    IN  IF ~IsOk(value) THEN value ELSE Ok([str |-> ValueString(d, value.val)])

\* The optional conversion of String without the test for the empty string.
OptionFromXmlString_AlwaysSome(d, r, h) ==
    LET s == FromXmlString(d, r, h)
    IN  IF ~IsOk(s) THEN s ELSE Ok(Some(s.val))

\* impl OptionFromXml for String
OptionFromXmlString(d, r, h) ==
    LET s == FromXmlString(d, r, h)
    IN  IF ~IsOk(s) THEN s
        ELSE IF s.val.str = <<>> THEN Ok(None) ELSE Ok(Some(s.val))

\* from_float_types!
FromXmlFloat(d, r, h) ==
    LET value == Evaluate(d, r, ".", h)
    IN  IF ~IsOk(value) THEN value ELSE Ok(ValueNumber(d, value.val))

\* from_parse_str! with s.parse().unwrap_or_default() in place of s.parse()?
FromXmlParse_OrDefault(T, d, r, h) ==
    LET s == FromXmlString(d, r, h)
    IN  IF ~IsOk(s) THEN s
        ELSE LET parsed == StrParse(T, s.val.str)
             IN  IF IsOk(parsed) THEN parsed
                 ELSE IF T = "bool" THEN Ok([bool |-> FALSE]) ELSE Ok([int |-> 0])

\* from_parse_str!
FromXmlParse(T, d, r, h) ==
    LET s == FromXmlString(d, r, h)
    IN  IF ~IsOk(s) THEN s
        ELSE LET parsed == StrParse(T, s.val.str)
             IN  IF IsOk(parsed) THEN parsed ELSE FromParseError(parsed)

\* The types that implement FromXml: the built-in ones and Child, a type
\* of the application whose conversion reads the text of a child element.
FromXmlTypes == {"String", "f64", "Child"} \cup ParseTypes

\* The types that implement OptionFromXml.
OptionFromXmlTypes == {"String", "Child"}

RECURSIVE FromXml(_, _, _, _)
\* XpathReader::read
Read(V, d, r, xpath_expr, h) ==
    LET rd == Relative(d, r, xpath_expr, h)
    IN  IF ~IsOk(rd) THEN rd ELSE FromXml(V, d, rd.val, h)

\* V::from_xml
FromXml(V, d, r, h) ==
    CASE V = "String" -> FromXmlString(d, r, h)
      [] V = "f64"    -> FromXmlFloat(d, r, h)
      [] V = "Child"  ->
            LET text == Read("String", d, r, "*", h)
            IN  IF ~IsOk(text) THEN text ELSE Ok([child |-> text.val.str])
      [] OTHER        -> FromXmlParse(V, d, r, h)

\* V::option_from_xml
OptionFromXml(V, d, r, h) ==
    CASE V = "String" -> OptionFromXmlString(d, r, h)
      [] V = "Child"  ->
            LET c == FromXml("Child", d, r, h)
            IN  IF ~IsOk(c) THEN c ELSE Ok(Some(c.val))

\* read_option without the NodeNotFound arm: every error of relative
\* is returned.
ReadOption_NoDowngrade(V, d, r, xpath_expr, h) ==
    LET rd == Relative(d, r, xpath_expr, h)
    IN  IF IsOk(rd) THEN OptionFromXml(V, d, rd.val, h) ELSE rd

\* read_option with Err(_) => Ok(None): every error of relative is None.
ReadOption_AnyErrorIsNone(V, d, r, xpath_expr, h) ==
    LET rd == Relative(d, r, xpath_expr, h)
    IN  IF IsOk(rd) THEN OptionFromXml(V, d, rd.val, h) ELSE Ok(None)

\* read_option matching NodeNotFound on the result of the conversion too.
ReadOption_DowngradesInner(V, d, r, xpath_expr, h) ==
    LET rd == Relative(d, r, xpath_expr, h)
        out == IF IsOk(rd) THEN OptionFromXml(V, d, rd.val, h) ELSE rd
    IN  IF IsErr(out) /\ out.kind = "NodeNotFound" THEN Ok(None) ELSE out

\* XpathReader::read_option
ReadOption(V, d, r, xpath_expr, h) ==
    LET rd == Relative(d, r, xpath_expr, h)
    IN  IF IsOk(rd) THEN OptionFromXml(V, d, rd.val, h)
        ELSE IF rd.kind = "NodeNotFound" THEN Ok(None)
        ELSE rd

RECURSIVE Collect(_, _, _, _, _, _, _)
\* The map and collect of read_vec: collecting into a Result stops at the
\* first item that is an error and returns it.
Collect(Item, d, context, nodes, k, acc, h) ==
    IF k > Len(nodes) THEN Ok([vec |-> acc])
    ELSE LET r == XpathNodeReaderNew(nodes[k], context)
             item == IF ~IsOk(r) THEN r ELSE FromXml(Item, d, r.val, h)
         IN  IF ~IsOk(item) THEN item
             ELSE Collect(Item, d, context, nodes, k + 1, Append(acc, item.val), h)

\* read_vec rejecting a scalar result, as relative does.
ReadVec_ScalarIsError(Item, d, r, xpath_expr, h) ==
    LET value == Evaluate(d, r, xpath_expr, h)
    IN  IF ~IsOk(value) THEN value
        ELSE IF IsNodeset(value.val)
        THEN Collect(Item, d, r.context, document_order(value.val.nodeset), 1, <<>>, h)
        ELSE Msg(<<"XPath didn't specify a nodeset: ", xpath_expr>>)

\* read_vec iterating the node-set as the engine holds it (nodeset.iter()).
ReadVec_HeldOrder(Item, d, r, xpath_expr, h) ==
    LET value == Evaluate(d, r, xpath_expr, h)
    IN  IF ~IsOk(value) THEN value
        ELSE IF IsNodeset(value.val)
        THEN Collect(Item, d, r.context, value.val.nodeset, 1, <<>>, h)
        ELSE Ok([vec |-> <<>>])

\* XpathReader::read_vec
ReadVec(Item, d, r, xpath_expr, h) ==
    LET value == Evaluate(d, r, xpath_expr, h)
    IN  IF ~IsOk(value) THEN value
        ELSE IF IsNodeset(value.val)
        THEN Collect(Item, d, r.context, document_order(value.val.nodeset), 1, <<>>, h)
        ELSE Ok([vec |-> <<>>])

\* ------------------------------------------------------ the state machine
\* The caller is sequential: it issues one call on the reader it holds,
\* gets the result, and then either goes on with the reader the call
\* returned or puts the result aside, before it issues the next call.

NoCall == [op |-> "none", ty |-> "-", query |-> "", on |-> NoReader]

Call(op, ty, query, on) == [op |-> op, ty |-> ty, query |-> query, on |-> on]

Idle == call = NoCall

\* The caller holds an input text; no reader is built yet.
Init ==
    /\ xml \in Inputs
    /\ reader = NoReader
    /\ call = NoCall
    /\ res = NoResult

\* XpathStrReader::new(xml, context)
New(context) ==
    /\ Idle
    /\ reader = NoReader
    /\ res' = XpathStrReaderNew(xml, context)
    /\ call' = Call("new", "-", "", NoReader)
    /\ UNCHANGED <<xml, reader>>

\* reader.relative(query)
DoRelative(xpath_expr, h) ==
    /\ Idle
    /\ reader # NoReader
    /\ res' = Relative(xml.tree, reader, xpath_expr, h)
    /\ call' = Call("relative", "-", xpath_expr, reader)
    /\ UNCHANGED <<xml, reader>>

\* reader.read::<V>(query), for V: FromXml
DoRead(V, xpath_expr, h) ==
    /\ Idle
    /\ V \in FromXmlTypes
    /\ reader # NoReader
    /\ res' = Read(V, xml.tree, reader, xpath_expr, h)
    /\ call' = Call("read", V, xpath_expr, reader)
    /\ UNCHANGED <<xml, reader>>

\* reader.read_option::<V>(query), for V: OptionFromXml
DoReadOption(V, xpath_expr, h) ==
    /\ Idle
    /\ V \in OptionFromXmlTypes
    /\ reader # NoReader
    /\ res' = ReadOption(V, xml.tree, reader, xpath_expr, h)
    /\ call' = Call("read_option", V, xpath_expr, reader)
    /\ UNCHANGED <<xml, reader>>

\* reader.read_vec::<Item>(query), for Item: FromXml
DoReadVec(Item, xpath_expr, h) ==
    /\ Idle
    /\ Item \in FromXmlTypes
    /\ reader # NoReader
    /\ res' = ReadVec(Item, xml.tree, reader, xpath_expr, h)
    /\ call' = Call("read_vec", Item, xpath_expr, reader)
    /\ UNCHANGED <<xml, reader>>

\* The caller goes on with the reader that new or relative returned.
Use ==
    /\ call.op \in {"new", "relative"}
    /\ IsOk(res)
    /\ reader' = res.val
    /\ call' = NoCall
    /\ res' = NoResult
    /\ UNCHANGED xml

\* The caller puts a returned value or error aside and keeps its reader.
\* A panic is not a return: nothing follows it.
Drop ==
    /\ call.op \in {"relative", "read", "read_option", "read_vec"}
    /\ res # Panic
    /\ call' = NoCall
    /\ res' = NoResult
    /\ UNCHANGED <<xml, reader>>

Next ==
    \/ \E c \in Contexts : New(c)
    \/ \E q \in Queries, h \in Orders : DoRelative(q, h)
    \/ \E V \in FromXmlTypes, q \in Queries, h \in Orders : DoRead(V, q, h)
    \/ \E V \in OptionFromXmlTypes, q \in Queries, h \in Orders : DoReadOption(V, q, h)
    \/ \E V \in FromXmlTypes, q \in Queries, h \in Orders : DoReadVec(V, q, h)
    \/ Use
    \/ Drop

Spec == Init /\ [][Next]_vars

\* ------------------------------------------------- what the claims speak of

\* The parsed document of the call under consideration.
Doc == xml.tree

IsReadCall == call.op \in {"relative", "read", "read_option", "read_vec"}

\* What the engine makes of the query of the last call on the reader the
\* call was made on.
Engine == Evaluate(Doc, call.on, call.query, "fwd")

SelectsNodes == IsReadCall /\ IsOk(Engine) /\ IsNodeset(Engine.val)

SelectsScalar == IsReadCall /\ IsOk(Engine) /\ ~IsNodeset(Engine.val)

EngineFails == IsReadCall /\ ~IsOk(Engine)

\* The nodes the query selects, as a set.
Selected == { Engine.val.nodeset[k] : k \in 1..Len(Engine.val.nodeset) }

\* The selected node that comes first in document order.
FirstSelected == CHOOSE m \in Selected : \A y \in Selected : m <= y

\* The text of the first selected node.
FirstText == StringValue(Doc, FirstSelected)

IsNodeNotFound(r, xpath) ==
    r.tag = "Err" /\ r.kind = "NodeNotFound" /\ r.info = <<xpath>>

IsConversionFailure(r) ==
    /\ r.tag = "Err"
    /\ r.kind = "FromXmlError"
    /\ r.info[1] \in {"ParseIntError", "ParseBoolError"}

IsNotNodesError(r, xpath) ==
    /\ r.tag = "Err"
    /\ r.kind = "Msg"
    /\ r.info = <<"XPath didn't specify a nodeset: ", xpath>>

\* C1: a query that compiles, evaluates and selects no node makes read fail
\* with NodeNotFound carrying that query, read_option return None and
\* read_vec return the empty sequence.
C1_EmptyNodeSet ==
    (SelectsNodes /\ Selected = {}) =>
        /\ call.op = "read" => IsNodeNotFound(res, call.query)
        /\ call.op = "read_option" => res = Ok(None)
        /\ call.op = "read_vec" => res = Ok([vec |-> <<>>])

C1_Witness ==
    /\ call.op = "read_option"
    /\ call.query = "*"
    /\ SelectsNodes
    /\ Selected = {}
    /\ res = Ok(None)

\* C2: when the query selects at least one node, relative returns a reader
\* rooted at the selected node that is first in document order, with the
\* context of the reader it was called on.
C2_RelativeFirstInDocumentOrder ==
    (call.op = "relative" /\ SelectsNodes /\ Selected # {}) =>
        /\ IsOk(res)
        /\ res.val.node \in Selected
        /\ \A m \in Selected : res.val.node <= m
        /\ res.val.context = call.on.context

C2_Witness ==
    /\ call.op = "relative"
    /\ SelectsNodes
    /\ Cardinality(Selected) >= 2
    /\ IsOk(res)
    /\ res.val.node = FirstSelected
    /\ res.val.context = "ctx2"

\* The failure of relative on the query of the last call.
RelativeOutcome == Relative(Doc, call.on, call.query, "fwd")

RelativeFailsOtherwise ==
    IsReadCall /\ IsErr(RelativeOutcome) /\ RelativeOutcome.kind # "NodeNotFound"

\* C3: when relative fails with anything but NodeNotFound (the query does
\* not compile, does not evaluate, or yields a scalar), read_option returns
\* that error and not None.
C3_OnlyNodeNotFoundDowngraded ==
    (call.op = "read_option" /\ RelativeFailsOtherwise) =>
        /\ res = RelativeOutcome
        /\ res.tag = "Err"
        /\ res.kind \in {"XpathParseError", "XpathExecuteError", "Msg"}

C3_Witness ==
    /\ call.op = "read_option"
    /\ call.query = "///"
    /\ RelativeFailsOtherwise
    /\ res.tag = "Err"
    /\ res.kind = "XpathParseError"

\* C4: for a query that evaluates to a scalar, read_vec returns the empty
\* sequence while read and read_option fail with the usage error; a query
\* that fails to compile or evaluate makes read_vec return that error.
C4_ScalarResult ==
    /\ SelectsScalar =>
        /\ call.op = "read_vec" => res = Ok([vec |-> <<>>])
        /\ call.op \in {"read", "read_option"} => IsNotNodesError(res, call.query)
    /\ (EngineFails /\ call.op = "read_vec") =>
        /\ res.tag = "Err"
        /\ res = Engine

C4_Witness ==
    /\ call.op = "read_vec"
    /\ call.query = "count(*)"
    /\ SelectsScalar
    /\ res = Ok([vec |-> <<>>])

\* The selected nodes in document order, and the required conversion of
\* the k-th of them to the type of the call.
SelectedInOrder == InDocumentOrder(Selected)

ItemOf(k) ==
    FromXml(call.ty, Doc, [node |-> SelectedInOrder[k], context |-> call.on.context], "fwd")

\* C5: on a node-set of n nodes read_vec returns the n conversions in
\* document order when all succeed, and otherwise the error of the first
\* node in document order whose conversion fails.
C5_ReadVecAllOrFirstError ==
    (call.op = "read_vec" /\ SelectsNodes) =>
        LET n == Len(SelectedInOrder)
        IN  IF \A k \in 1..n : IsOk(ItemOf(k))
            THEN /\ IsOk(res)
                 /\ Len(res.val.vec) = n
                 /\ \A k \in 1..n : res.val.vec[k] = ItemOf(k).val
            ELSE \E k \in 1..n :
                    /\ ~IsOk(ItemOf(k))
                    /\ \A j \in 1..(k - 1) : IsOk(ItemOf(j))
                    /\ res = ItemOf(k)

C5_Witness ==
    /\ call.op = "read_vec"
    /\ call.ty = "u8"
    /\ SelectsNodes
    /\ Len(SelectedInOrder) = 2
    /\ ~IsOk(ItemOf(1))
    /\ ~IsOk(ItemOf(2))
    /\ ItemOf(1) # ItemOf(2)
    /\ res = ItemOf(1)

\* C6: when the first matched node exists and has text S, read::<String>
\* returns S, the empty text included, and read_option::<String> returns
\* Some(S) for a non-empty S and None for the empty S.
C6_StringReads ==
    (call.ty = "String" /\ SelectsNodes /\ Selected # {}) =>
        /\ call.op = "read" => res = Ok([str |-> FirstText])
        /\ call.op = "read_option" =>
            /\ FirstText # <<>> => res = Ok(Some([str |-> FirstText]))
            /\ FirstText = <<>> => res = Ok(None)
            /\ res # Ok(Some([str |-> <<>>]))

C6_Witness ==
    /\ call.op = "read_option"
    /\ call.ty = "String"
    /\ SelectsNodes
    /\ Selected # {}
    /\ FirstText = <<>>
    /\ res = Ok(None)

\* The textual grammar of the scalar types, stated on the text and not by
\* the parsing loop: an optional sign ("+", or "-" for a signed type),
\* one or more decimal digits, and a magnitude within the type's limit.
DecimalDigits == {"0", "1", "2", "3", "4", "5", "6", "7", "8", "9"}

HasSign(T, S) ==
    S # <<>> /\ (S[1] = "+" \/ (S[1] = "-" /\ T \in {"i8", "i32"}))

IsNegative(T, S) == HasSign(T, S) /\ S[1] = "-"

MagnitudeOf(T, S) == IF HasSign(T, S) THEN Tail(S) ELSE S

RECURSIVE StripZeros(_)
StripZeros(ds) ==
    IF Len(ds) > 1 /\ ds[1] = "0" THEN StripZeros(Tail(ds)) ELSE ds

\* The largest magnitude of the type, as a numeral.
Limit(T, negative) ==
    CASE T = "u8"  -> <<"2", "5", "5">>
      [] T = "u16" -> <<"6", "5", "5", "3", "5">>
      [] T = "i8"  -> IF negative THEN <<"1", "2", "8">> ELSE <<"1", "2", "7">>
      [] T = "i32" -> IF negative THEN <<"2", "1", "4", "7", "4", "8", "3", "6", "4", "8">>
                      ELSE <<"2", "1", "4", "7", "4", "8", "3", "6", "4", "7">>

DigitRank(c) == CHOOSE i \in 0..9 : Digit[i] = c

\* a <= b for numerals without leading zeros.
NumeralLeq(a, b) ==
    \/ Len(a) < Len(b)
    \/ /\ Len(a) = Len(b)
       /\ \/ a = b
          \/ \E k \in 1..Len(a) :
                /\ \A j \in 1..(k - 1) : a[j] = b[j]
                /\ DigitRank(a[k]) < DigitRank(b[k])

InGrammar(T, S) ==
    IF T = "bool" THEN S \in { <<"t", "r", "u", "e">>, <<"f", "a", "l", "s", "e">> }
    ELSE LET ds == MagnitudeOf(T, S)
         IN  /\ ds # <<>>
             /\ \A k \in 1..Len(ds) : ds[k] \in DecimalDigits
             /\ NumeralLeq(StripZeros(ds), Limit(T, IsNegative(T, S)))

RECURSIVE SignedNumeralValue(_, _)
\* The number a numeral denotes, with the given sign (1 or -1).
SignedNumeralValue(ds, sign) ==
    IF ds = <<>> THEN 0
    ELSE SignedNumeralValue(SubSeq(ds, 1, Len(ds) - 1), sign) * 10
         + sign * DigitRank(ds[Len(ds)])

GrammarValue(T, S) ==
    IF T = "bool" THEN [bool |-> S = <<"t", "r", "u", "e">>]
    ELSE [int |-> SignedNumeralValue(MagnitudeOf(T, S), IF IsNegative(T, S) THEN -1 ELSE 1)]

\* C7: the required conversion to bool or to an integer type succeeds, with
\* the value the text denotes, exactly when the text of the node is in the
\* type's grammar; otherwise it fails with the FromXmlError kind wrapping
\* the parse error, and no default value is returned.
C7_ScalarParse ==
    (call.op = "read" /\ call.ty \in ParseTypes /\ SelectsNodes /\ Selected # {}) =>
        IF InGrammar(call.ty, FirstText)
        THEN res = Ok(GrammarValue(call.ty, FirstText))
        ELSE IsConversionFailure(res)

C7_Witness ==
    /\ call.op = "read"
    /\ call.ty = "i8"
    /\ SelectsNodes
    /\ Selected # {}
    /\ FirstText = <<"1", "2", "8">>
    /\ IsConversionFailure(res)

ScalarTypes == ParseTypes \cup {"f64"}

\* C8 as stated: every scalar target has an optional conversion, so that
\* on a reader whose root exists and has empty text read_option of a
\* scalar type can be called and returns None.
C8_ScalarOptionalConversion ==
    (Idle /\ reader # NoReader /\ StringValue(Doc, reader.node) = <<>>) =>
        \A T \in ScalarTypes :
            ENABLED (DoReadOption(T, ".", "fwd") /\ res' = Ok(None))

\* C8 amended: only text has an optional conversion among the built-in
\* targets, so no read_option call is made with a scalar type; on an
\* existing node with empty text the required conversion of bool and of
\* the integer types fails with the FromXmlError kind, that of f64 returns
\* the engine's number for the text, and read_option::<String> is the read
\* that returns None.
C8_ScalarsHaveRequiredConversionOnly ==
    /\ call.op = "read_option" => call.ty \notin ScalarTypes
    /\ (SelectsNodes /\ Selected # {} /\ FirstText = <<>>) =>
        /\ (call.op = "read" /\ call.ty \in ParseTypes) => IsConversionFailure(res)
        /\ (call.op = "read" /\ call.ty = "f64") => res = Ok([number_of |-> <<>>])
        /\ (call.op = "read_option" /\ call.ty = "String") => res = Ok(None)

C8_Witness ==
    /\ call.op = "read"
    /\ call.ty = "bool"
    /\ SelectsNodes
    /\ Selected # {}
    /\ FirstText = <<>>
    /\ IsConversionFailure(res)

\* C9: construction from text and every read return a value or an error
\* of the crate's kinds; none of them panics.
C9_NoAbort ==
    /\ res.tag \in {"NoResult", "Ok", "Err"}
    /\ res.tag = "Err" => res.kind \in XpathErrorKinds

\* C10: when the outer query matches a node and the optional conversion of
\* the type fails with NodeNotFound (Child reads a missing child element),
\* read_option returns that NodeNotFound error and not None.
C10_InnerNodeNotFoundPropagates ==
    (call.op = "read_option" /\ call.ty = "Child" /\ SelectsNodes
        /\ Selected # {} /\ Children(Doc, FirstSelected) = {}) =>
        IsNodeNotFound(res, "*")

C10_Witness ==
    /\ call.op = "read_option"
    /\ call.ty = "Child"
    /\ call.query = "."
    /\ SelectsNodes
    /\ Selected # {}
    /\ Children(Doc, FirstSelected) = {}
    /\ IsNodeNotFound(res, "*")

====
